---------------------------- MODULE Spec2Model ----------------------------
(***************************************************************************)
(* AI Calling Campaign Engine (src/main.py): a FastAPI service whose four  *)
(* handlers each load the whole campaigns.json, change at most one record  *)
(* and write the whole file back.  The handlers are plain `def` functions, *)
(* which FastAPI runs on a thread pool, so requests interleave at every    *)
(* file operation and at the two blocking network calls.                   *)
(*                                                                         *)
(* Text is modelled as a sequence of one-character strings, so that        *)
(* str.replace and re.match are computed character by character.           *)
(***************************************************************************)
EXTENDS Integers, Sequences, FiniteSets, TLC

(***************************************************************************)
(* Bounds of the model.                                                    *)
(***************************************************************************)
NumWorkers == 2      \* request threads that may run at the same time
MaxCampaigns == 2    \* campaigns created by successful generate-script calls
MaxRequests == 4     \* requests that reach load_campaigns in a run
MaxNumbers == 2      \* length of the number lists given to clean_numbers alone

(***************************************************************************)
(* Program constants.                                                      *)
(***************************************************************************)
MinDigits == 10      \* re: \d{10,15}
MaxDigits == 15      \* re: \d{10,15}
HttpOk == 200        \* call_openrouter: response.status_code != 200
WebhookLo == 200     \* approve_campaign: 200 <= response.status_code
WebhookHi == 300     \* approve_campaign: response.status_code < 300
Indent4 == 4         \* save_campaigns: json.dump(data, f, indent=4)
CampaignLayout == 250 \* json.dump, indent=4: a record's keys, quotes and white space
EntryLayout == 157   \* json.dump, indent=4: a call-log entry's keys and white space
ListLayout == 8      \* json.dump, indent=4: a non-empty list's line breaks
ItemLayout == 16     \* json.dump, indent=4: a string item's quotes and white space
UuidLen == 36        \* len(str(uuid.uuid4()))
TimestampLen == 26   \* len(str(datetime.datetime.utcnow()))

Procs == 1..NumWorkers

(***************************************************************************)
(* Characters and strings.                                                 *)
(***************************************************************************)
NL == "\n"
DigitChars == <<"0", "1", "2", "3", "4", "5", "6", "7", "8", "9">>
AsciiDigits == {DigitChars[i] : i \in 1..10}

\* k ASCII digits: 1 2 3 ... 9 0 1 2 ...
Digits(k) == [i \in 1..k |-> DigitChars[(i % 10) + 1]]

\* str.isdigit-style class of the regular expression's \d, restricted to
\* the characters of the model
IsDigit(c) == c \in AsciiDigits

\* s.replace(ch, ""): every occurrence of the character removed
RECURSIVE Replace(_, _)
Replace(s, ch) ==
    IF s = <<>> THEN <<>>
    ELSE IF Head(s) = ch THEN Replace(Tail(s), ch)
         ELSE <<Head(s)>> \o Replace(Tail(s), ch)

\* n.replace(" ", "").replace("-", "")
Strip(n) == Replace(Replace(n, " "), "-")

\* length of the longest run of \d characters of s starting at position i
RECURSIVE DigitRun(_, _)
DigitRun(s, i) ==
    IF i <= Len(s) /\ IsDigit(s[i]) THEN 1 + DigitRun(s, i + 1) ELSE 0

\* Python's `$` without re.MULTILINE: the end of the string, or the
\* position just before a newline that is the last character
DollarAt(s, i) == \/ i = Len(s) + 1
                  \/ (i = Len(s) /\ s[i] = NL)

\* re.match(r"^\+\d{10,15}$", s): a '+', then a greedy run of 10 to 15
\* digits (backtracking to fewer digits never helps: `$` cannot stand
\* before a digit), then `$`
ReMatch(s) ==
    /\ Len(s) >= 1
    /\ s[1] = "+"
    /\ \E k \in MinDigits..MaxDigits :
          /\ k <= DigitRun(s, 2)
          /\ DollarAt(s, 2 + k)

\* clean_numbers: the loop over numbers, appending the stripped form of
\* each entry the pattern matches
RECURSIVE clean_numbers(_)
clean_numbers(numbers) ==
    IF numbers = <<>> THEN <<>>
    ELSE LET n == Strip(Head(numbers))
         IN  (IF ReMatch(n) THEN <<n>> ELSE <<>>) \o clean_numbers(Tail(numbers))

(***************************************************************************)
(* The completion endpoint as call_openrouter sees it.                     *)
(***************************************************************************)
\* os.getenv("OPENROUTER_API_KEY"): None (written "None"), "" or a key
KeyValues == {"None", "", "sk-or-key"}
Falsy(k) == k \in {"None", ""}

NetError == [kind |-> "error", status |-> 0, body |-> [json |-> FALSE, value |-> [x |-> 0]]]
Response(s, b) == [kind |-> "response", status |-> s, body |-> b]

NotJson == [json |-> FALSE, value |-> [x |-> 0]]
Json(v) == [json |-> TRUE, value |-> v]
Bodies ==
    { NotJson,
      Json([choices |-> << [message |-> [content |-> "script-A"]] >>]),
      Json([choices |-> << [message |-> [content |-> "script-A"]],
                           [message |-> [content |-> "script-B"]] >>]),
      Json([choices |-> <<>>]),
      Json([error |-> "rate limited"]),
      Json([choices |-> << [text |-> "script-A"] >>]),
      Json([choices |-> << [message |-> [role |-> "assistant"]] >>]) }

HttpStatuses == {199, 200, 201, 204, 299, 300, 404, 500}

CompletionOutcomes == {NetError} \cup {Response(s, b) : s \in HttpStatuses, b \in Bodies}

\* result["choices"][0]["message"]["content"] can be evaluated
HasShape(b) ==
    /\ b.json
    /\ "choices" \in DOMAIN b.value
    /\ Len(b.value.choices) >= 1
    /\ "message" \in DOMAIN b.value.choices[1]
    /\ "content" \in DOMAIN b.value.choices[1].message

\* response.status_code != 200 raises
\* (faulty variant: any 2xx accepted)
StatusAccepted_Any2xx(s) == 200 <= s /\ s < 300
StatusAccepted(s) == s = HttpOk

Raised(called) == [ok |-> FALSE, content |-> "", called |-> called]
Returned(c) == [ok |-> TRUE, content |-> c, called |-> TRUE]

\* call_openrouter(prompt) with the key `key` when the network answers
\* `net`: ok = it returned, content = what it returned, called = the POST
\* was made
call_openrouter(key, net) ==
    IF Falsy(key) THEN Raised(FALSE)
    ELSE IF net.kind = "error" THEN Raised(TRUE)
    ELSE IF ~StatusAccepted(net.status) THEN Raised(TRUE)
    ELSE IF ~HasShape(net.body) THEN Raised(TRUE)
    ELSE Returned(net.body.value.choices[1].message.content)

(***************************************************************************)
(* The automation webhook as approve_campaign sees it.                     *)
(***************************************************************************)
\* requests.post raised a RequestException, or answered with a status
WebhookOutcomes == {[kind |-> "error", status |-> 0]}
                   \cup {[kind |-> "response", status |-> s] : s \in HttpStatuses}

\* the webhook took the campaign: it answered with a 2xx status
Acknowledged(w) == w.kind = "response" /\ w.status \in 200..299

\* 200 <= response.status_code < 300
\* (faulty variants: the status never looked at; a RequestException swallowed)
WebhookAccepted_Always(w) == TRUE
WebhookAccepted_ErrorToo(w) ==
    w.kind = "error" \/ (WebhookLo <= w.status /\ w.status < WebhookHi)
WebhookAccepted(w) ==
    w.kind = "response" /\ WebhookLo <= w.status /\ w.status < WebhookHi

(***************************************************************************)
(* Campaign records.                                                       *)
(***************************************************************************)
\* str(datetime.datetime.utcnow()): the reading is named by the request
\* that takes it (the campaign id, or the number of the call-status request)
UtcNowStr(t) == <<"utc", t>>

\* next((c for c in campaigns if c["campaign_id"] == id), None): the index
\* of the first match, 0 for None
\* (faulty variant: the id not compared)
Find_First(campaigns, id) == IF campaigns = <<>> THEN 0 ELSE 1
Find(campaigns, id) ==
    IF \E i \in 1..Len(campaigns) : campaigns[i].campaign_id = id
    THEN CHOOSE i \in 1..Len(campaigns) :
            /\ campaigns[i].campaign_id = id
            /\ \A j \in 1..(i - 1) : campaigns[j].campaign_id # id
    ELSE 0

\* the record generate_script builds
CampaignRecord(id, brief, cleaned, script, t) ==
    [campaign_id |-> id,
     campaign_name |-> brief.campaign_name,
     purpose |-> brief.campaign_purpose,
     tone |-> brief.tone,
     voice |-> brief.voice,
     numbers |-> cleaned,
     script |-> script,
     status |-> "draft",
     created_at |-> UtcNowStr(t),
     call_logs |-> <<>>]

\* the entry call_status_webhook appends
CallLogEntry(phone, status, duration, t) ==
    [phone_number |-> phone, status |-> status, duration |-> duration,
     timestamp |-> UtcNowStr(t)]

\* campaign["call_logs"].append(entry) on the record at index i
\* (faulty variant: the list replaced instead of extended)
AppendLog_Replace(campaigns, i, entry) ==
    [campaigns EXCEPT ![i].call_logs = <<entry>>]
AppendLog(campaigns, i, entry) ==
    [campaigns EXCEPT ![i].call_logs = Append(@, entry)]

\* campaign["status"] = "approved" on the record at index i
SetApproved(campaigns, i) == [campaigns EXCEPT ![i].status = "approved"]

(***************************************************************************)
(* campaigns.json.  kind: "missing" (no such file), "empty" (opened with   *)
(* mode "w": truncated, nothing written yet), "json" (one complete         *)
(* document: data written with the given indent) or "corrupt" (a document  *)
(* followed by the tail of a longer one, which json.load rejects); size is *)
(* the length of the file in bytes.                                        *)
(***************************************************************************)
Missing == [kind |-> "missing", indent |-> 0, data |-> <<>>, size |-> 0]
Truncated == [kind |-> "empty", indent |-> 0, data |-> <<>>, size |-> 0]
Corrupt(n) == [kind |-> "corrupt", indent |-> 0, data |-> <<>>, size |-> n]
NoSnapshot == [kind |-> "none", indent |-> 0, data |-> <<>>, size |-> 0]

\* len(str(n))
RECURSIVE DecLen(_)
DecLen(n) == IF n < 10 THEN 1 ELSE 1 + DecLen(n \div 10)
IntLen(n) == IF n < 0 THEN 1 + DecLen(-n) ELSE DecLen(n)

RECURSIVE SumOver(_, _)
SumOver(seq, i) == IF i > Len(seq) THEN 0 ELSE seq[i] + SumOver(seq, i + 1)

\* bytes json.dump(..., indent=4) writes for one call-log entry, for the
\* numbers list and for one campaign record, on top of the layout
EntryBytes(e) ==
    EntryLayout + Len(e.phone_number) + Len(e.status) + IntLen(e.duration) + TimestampLen
ListBytes(items) ==
    IF items = <<>> THEN 0 ELSE ListLayout + SumOver(items, 1)
CampaignBytes(c) ==
    CampaignLayout + UuidLen + Len(c.campaign_name) + Len(c.purpose) + Len(c.tone)
    + Len(c.voice) + Len(c.script) + Len(c.status) + TimestampLen
    + ListBytes([i \in 1..Len(c.numbers) |-> ItemLayout + Len(c.numbers[i])])
    + ListBytes([i \in 1..Len(c.call_logs) |-> EntryBytes(c.call_logs[i])])

\* len(json.dumps(data, indent=indent)): "[]" for the empty list
JsonSize(data) ==
    IF data = <<>> THEN 2
    ELSE 2 + SumOver([i \in 1..Len(data) |-> CampaignBytes(data[i])], 1)

\* json.dump(data, f, indent=indent): the bytes depend on the data and, for
\* a non-empty list, on the indent ("[]" is written the same either way;
\* the handlers write a non-empty list with indent=4 only)
JsonDump(data, indent) ==
    [kind |-> "json", indent |-> IF data = <<>> THEN 0 ELSE indent, data |-> data,
     size |-> JsonSize(data)]

\* json.load(f) succeeds
Parses(f) == f.kind = "json"
\* json.load(f)
JsonLoad(f) == f.data

\* what the file holds after a writer that opened it with mode "w" writes
\* `doc` from offset 0 and closes (a document of this size leaves the
\* buffer in one write): its bytes replace the head of what is there, so a
\* file no longer than the document becomes the document, and a longer one
\* (written by another writer since this one truncated it) keeps its tail
AfterWrite(f, doc) ==
    IF doc.size >= f.size THEN doc ELSE Corrupt(f.size)

(***************************************************************************)
(* Request inputs.                                                         *)
(***************************************************************************)
Brief == [campaign_name |-> "Test Campaign", campaign_purpose |-> "Test Purpose",
          tone |-> "Professional", voice |-> "female"]

Raw_Spaced == <<"+", "1", " ", "2", "3", "4", "-", "5", "6", "7", "8", "9", "0", "1">>
Raw_Abc == <<"a", "b", "c">>
Raw_Plain == <<"+">> \o Digits(12)

\* the `numbers` lists given to generate-script
NumberLists == { <<Raw_Spaced, Raw_Abc>>, <<Raw_Abc>>, <<>> }

\* campaign ids a request may name: an id names no campaign until
\* generate-script has stored it
RequestIds == 1..MaxCampaigns

\* call-status payloads: nothing in them is validated
CallReports == { [phone_number |-> Raw_Plain, call_status |-> "completed", duration |-> 42],
                 [phone_number |-> Raw_Abc, call_status |-> "???", duration |-> -7] }

\* which of knowledge_base.json and prompt.txt exist
ConfigFiles == { [knowledge_base |-> TRUE, prompt |-> TRUE],
                 [knowledge_base |-> FALSE, prompt |-> TRUE],
                 [knowledge_base |-> TRUE, prompt |-> FALSE] }

\* the completion outcomes the handlers are run against
HandlerCompletions ==
    { NetError,
      Response(200, Json([choices |-> << [message |-> [content |-> "script-A"]] >>])),
      Response(201, Json([choices |-> << [message |-> [content |-> "script-A"]] >>])) }

\* the webhook outcomes approve_campaign is run against
HandlerWebhooks == { [kind |-> "error", status |-> 0],
                    [kind |-> "response", status |-> 200],
                    [kind |-> "response", status |-> 204],
                    [kind |-> "response", status |-> 404] }

(***************************************************************************)
(* State.                                                                  *)
(***************************************************************************)
VARIABLES
    OPENROUTER_API_KEY, \* the module-level constant read at import
    file,               \* campaigns.json
    pc,                 \* pc[p]: where thread p is in its handler
    req,                \* req[p]: the request thread p is handling
    campaigns,          \* campaigns[p]: the handler's local `campaigns` list
    nextId,             \* ids issued so far + 1 (uuid4 never repeats)
    nRequests,          \* requests that have reached load_campaigns so far
    \* observations of the run, read by no handler
    store,              \* the last complete document campaigns.json held
    wrote,              \* wrote[p]: "load"/"save" once load_campaigns/save_campaigns wrote
    posted,             \* posted[p]: what the automation webhook answered the request
    notified,           \* ids the automation webhook acknowledged with a 2xx
    committed,          \* ids for which approve-campaign has returned success
    before,             \* campaigns.json when the only running request began
    response,           \* the response the step just taken sent, if any
    \* clean_numbers and call_openrouter on their own
    cn_numbers, cn_cleaned, cn_done,
    co_net, co_result, co_done

vars == <<OPENROUTER_API_KEY, file, pc, req, campaigns, nextId, nRequests,
          store, wrote, posted, notified, committed, before, response,
          cn_numbers, cn_cleaned, cn_done, co_net, co_result, co_done>>

pureVars == <<cn_numbers, cn_cleaned, cn_done, co_net, co_result, co_done>>
serviceVars == <<file, pc, req, campaigns, nextId, nRequests,
                 store, wrote, posted, notified, committed, before, response>>

NoPost == [kind |-> "none", status |-> 0]
NoRequest == [op |-> "none", id |-> 0, seq |-> 0, late |-> FALSE, numbers |-> <<>>,
              record |-> <<>>, report |-> <<>>]
NoResponse == [op |-> "none", id |-> 0, code |-> 0, detail |-> "",
               wrote |-> "none", posted |-> NoPost, late |-> FALSE, solo |-> FALSE,
               numbers |-> <<>>, cleaned_numbers |-> <<>>]

(***************************************************************************)
(* Bookkeeping shared by the handlers.                                     *)
(***************************************************************************)
Idle(p) == pc[p] = "idle"
Quiet == \A q \in Procs : pc[q] = "idle"
OthersQuiet(p) == \A q \in Procs \ {p} : pc[q] = "idle"

\* campaigns.json takes the contents f
SetFile(f) ==
    /\ file' = f
    /\ store' = IF Parses(f) THEN JsonLoad(f) ELSE store

\* thread p starts handling request r and comes to load_campaigns, whose
\* os.path.exists(CAMPAIGN_FILE) decides between creating the file and
\* reading it; the request runs alone when no other is in progress
Accept(p, r) ==
    /\ nRequests < MaxRequests
    /\ nRequests' = nRequests + 1
    /\ pc' = [pc EXCEPT ![p] = IF file.kind = "missing" THEN "load_open" ELSE "load_read"]
    /\ req' = [req EXCEPT ![p] = r]
    /\ before' = IF Quiet THEN file ELSE NoSnapshot
    /\ UNCHANGED <<campaigns, wrote, posted, committed>>
    /\ response' = NoResponse

\* thread p sends the response of request r and is free again
Respond(p, r, code, detail, cleaned, postedNow, solo) ==
    /\ response' = [op |-> r.op, id |-> r.id, code |-> code,
                    detail |-> detail, wrote |-> wrote[p], posted |-> postedNow,
                    late |-> r.late, solo |-> solo,
                    numbers |-> r.numbers, cleaned_numbers |-> cleaned]
    /\ committed' = IF r.op = "approve" /\ code = 200
                    THEN committed \cup {r.id} ELSE committed
    /\ pc' = [pc EXCEPT ![p] = "idle"]
    /\ req' = [req EXCEPT ![p] = NoRequest]
    /\ campaigns' = [campaigns EXCEPT ![p] = <<>>]
    /\ wrote' = [wrote EXCEPT ![p] = "none"]
    /\ posted' = [posted EXCEPT ![p] = NoPost]
    /\ before' = NoSnapshot

\* the request of p has run alone so far
Solo == before.kind # "none"

(***************************************************************************)
(* load_campaigns and save_campaigns, one file operation per step.         *)
(***************************************************************************)
\* open(CAMPAIGN_FILE, "w") of load_campaigns: creates or truncates
LoadOpen(p) ==
    /\ pc[p] = "load_open"
    /\ SetFile(Truncated)
    /\ wrote' = [wrote EXCEPT ![p] = IF @ = "save" THEN @ ELSE "load"]
    /\ pc' = [pc EXCEPT ![p] = "load_dump"]
    /\ UNCHANGED <<pureVars, OPENROUTER_API_KEY, req, campaigns, nextId, nRequests,
                   posted, notified, committed, before>>
    /\ response' = NoResponse

\* json.dump([], f) and the close of the `with` block
LoadDump(p) ==
    /\ pc[p] = "load_dump"
    /\ SetFile(AfterWrite(file, JsonDump(<<>>, 0)))
    /\ pc' = [pc EXCEPT ![p] = "load_read"]
    /\ UNCHANGED <<pureVars, OPENROUTER_API_KEY, req, campaigns, nextId, nRequests,
                   wrote, posted, notified, committed, before>>
    /\ response' = NoResponse

\* json.load(f) raises on a file that holds no complete document; no
\* handler catches it and the server answers 500
LoadReadError(p) ==
    /\ pc[p] = "load_read"
    /\ ~Parses(file)
    /\ Respond(p, req[p], 500, "Internal Server Error", <<>>, NoPost, Solo)
    /\ UNCHANGED <<pureVars, OPENROUTER_API_KEY, file, nextId, nRequests, store, notified>>

\* open(CAMPAIGN_FILE, "w") of save_campaigns
SaveOpen(p) ==
    /\ pc[p] = "save_open"
    /\ SetFile(Truncated)
    /\ wrote' = [wrote EXCEPT ![p] = "save"]
    /\ pc' = [pc EXCEPT ![p] = "save_dump"]
    /\ UNCHANGED <<pureVars, OPENROUTER_API_KEY, req, campaigns, nextId, nRequests,
                   posted, notified, committed, before>>
    /\ response' = NoResponse

\* json.dump(data, f, indent=4), the close, and the handler's return
SaveDump(p) ==
    /\ pc[p] = "save_dump"
    /\ SetFile(AfterWrite(file, JsonDump(campaigns[p], Indent4)))
    /\ Respond(p, req[p], 200,
               CASE req[p].op = "generate" -> "script generated"
                 [] req[p].op = "approve" -> "Campaign successfully sent to automation layer (dummy)"
                 [] OTHER -> "Call log updated successfully",
               IF req[p].op = "generate" THEN req[p].record.numbers ELSE <<>>,
               posted[p], Solo)
    /\ UNCHANGED <<pureVars, OPENROUTER_API_KEY, nextId, nRequests, notified>>

(***************************************************************************)
(* POST /generate-script                                                   *)
(***************************************************************************)
\* if not cleaned_numbers
\* (faulty variant: the test left out)
NoValidNumbers_Never(cleaned_numbers) == FALSE
NoValidNumbers(cleaned_numbers) == cleaned_numbers = <<>>

\* generate_script up to its call of load_campaigns: the two configuration
\* files, clean_numbers, the completion, the id and the record
GenerateScript(p) ==
    /\ Idle(p)
    /\ \E config \in ConfigFiles :
          LET r == [NoRequest EXCEPT !.op = "generate"]
          IN  IF ~config.knowledge_base
              THEN /\ Respond(p, r, 500, "knowledge_base.json missing", <<>>, NoPost, OthersQuiet(p))
                   /\ UNCHANGED <<nextId, nRequests>>
              ELSE IF ~config.prompt
              THEN /\ Respond(p, r, 500, "prompt.txt missing", <<>>, NoPost, OthersQuiet(p))
                   /\ UNCHANGED <<nextId, nRequests>>
              ELSE \E numbers \in NumberLists :
                      LET cleaned_numbers == clean_numbers(numbers)
                          rn == [r EXCEPT !.numbers = numbers]
                      IN  IF NoValidNumbers(cleaned_numbers)
                          THEN /\ Respond(p, rn, 400, "No valid phone numbers provided",
                                          <<>>, NoPost, OthersQuiet(p))
                               /\ UNCHANGED <<nextId, nRequests>>
                          ELSE \E net \in HandlerCompletions :
                                  LET script == call_openrouter(OPENROUTER_API_KEY, net)
                                  IN  IF ~script.ok
                                      THEN /\ Respond(p, rn, 500, "upstream generation failed",
                                                      <<>>, NoPost, OthersQuiet(p))
                                           /\ UNCHANGED <<nextId, nRequests>>
                                      ELSE /\ nextId <= MaxCampaigns
                                           /\ Accept(p, [rn EXCEPT
                                                           !.id = nextId,
                                                           !.record = CampaignRecord(
                                                               nextId, Brief, cleaned_numbers,
                                                               script.content, nextId)])
                                           /\ nextId' = nextId + 1
    /\ UNCHANGED <<pureVars, OPENROUTER_API_KEY, file, store, notified>>

\* campaigns = load_campaigns(); campaigns.append(campaign_record)
GenerateScriptAppend(p) ==
    /\ pc[p] = "load_read"
    /\ req[p].op = "generate"
    /\ Parses(file)
    /\ campaigns' = [campaigns EXCEPT ![p] = Append(JsonLoad(file), req[p].record)]
    /\ pc' = [pc EXCEPT ![p] = "save_open"]
    /\ UNCHANGED <<pureVars, OPENROUTER_API_KEY, file, req, nextId, nRequests,
                   store, wrote, posted, notified, committed, before>>
    /\ response' = NoResponse

(***************************************************************************)
(* POST /approve-campaign                                                  *)
(***************************************************************************)
ApproveCampaign(p) ==
    /\ Idle(p)
    /\ \E id \in RequestIds :
          Accept(p, [NoRequest EXCEPT !.op = "approve", !.id = id,
                                      !.late = id \in committed])
    /\ UNCHANGED <<pureVars, OPENROUTER_API_KEY, file, nextId, store, notified>>

\* campaigns = load_campaigns(), the lookup and the three early exits
ApproveFind(p) ==
    /\ pc[p] = "load_read"
    /\ req[p].op = "approve"
    /\ Parses(file)
    /\ LET loaded == JsonLoad(file)
           i == Find(loaded, req[p].id)
       IN  IF i = 0
           THEN /\ Respond(p, req[p], 404, "Campaign not found", <<>>, NoPost, Solo)
                /\ UNCHANGED notified
           ELSE IF loaded[i].status = "approved"
           THEN /\ Respond(p, req[p], 200, "Campaign already approved", <<>>, NoPost, Solo)
                /\ UNCHANGED notified
           ELSE IF loaded[i].numbers = <<>>
           THEN /\ Respond(p, req[p], 400, "No valid phone numbers to call", <<>>, NoPost, Solo)
                /\ UNCHANGED notified
           ELSE /\ campaigns' = [campaigns EXCEPT ![p] = loaded]
                /\ pc' = [pc EXCEPT ![p] = "notify"]
                /\ UNCHANGED <<req, wrote, posted, notified, committed, before>>
                /\ response' = NoResponse
    /\ UNCHANGED <<pureVars, OPENROUTER_API_KEY, file, nextId, nRequests, store>>

\* requests.post(MAKE_WEBHOOK_URL, ...), the status check and
\* campaign["status"] = "approved"
ApproveNotify(p) ==
    /\ pc[p] = "notify"
    /\ \E w \in HandlerWebhooks :
          IF WebhookAccepted(w)
          THEN /\ notified' = IF Acknowledged(w) THEN notified \cup {req[p].id} ELSE notified
               /\ posted' = [posted EXCEPT ![p] = w]
               /\ campaigns' = [campaigns EXCEPT
                                  ![p] = SetApproved(@, Find(@, req[p].id))]
               /\ pc' = [pc EXCEPT ![p] = "save_open"]
               /\ UNCHANGED <<req, wrote, committed, before>>
               /\ response' = NoResponse
          ELSE /\ Respond(p, req[p], 500,
                          IF w.kind = "error" THEN "Automation trigger failed"
                                              ELSE "Webhook failed",
                          <<>>, w, Solo)
               /\ notified' = IF Acknowledged(w) THEN notified \cup {req[p].id} ELSE notified
    /\ UNCHANGED <<pureVars, OPENROUTER_API_KEY, file, nextId, nRequests, store>>

(***************************************************************************)
(* POST /call-status-webhook                                               *)
(***************************************************************************)
CallStatusWebhook(p) ==
    /\ Idle(p)
    /\ \E id \in RequestIds, report \in CallReports :
          Accept(p, [NoRequest EXCEPT !.op = "call_status", !.id = id, !.seq = nRequests + 1,
                                      !.report = report])
    /\ UNCHANGED <<pureVars, OPENROUTER_API_KEY, file, nextId, store, notified>>

\* campaigns = load_campaigns(), the lookup and the append
CallStatusAppend(p) ==
    /\ pc[p] = "load_read"
    /\ req[p].op = "call_status"
    /\ Parses(file)
    /\ LET loaded == JsonLoad(file)
           i == Find(loaded, req[p].id)
           data == req[p].report
       IN  IF i = 0
           THEN /\ Respond(p, req[p], 404, "Campaign not found", <<>>, NoPost, Solo)
           ELSE /\ campaigns' = [campaigns EXCEPT
                                   ![p] = AppendLog(loaded, i,
                                             CallLogEntry(data.phone_number, data.call_status,
                                                          data.duration, req[p].seq))]
                /\ pc' = [pc EXCEPT ![p] = "save_open"]
                /\ UNCHANGED <<req, wrote, posted, committed, before>>
                /\ response' = NoResponse
    /\ UNCHANGED <<pureVars, OPENROUTER_API_KEY, file, nextId, nRequests, store, notified>>

(***************************************************************************)
(* POST /generate-summary                                                  *)
(***************************************************************************)
GenerateSummary(p) ==
    /\ Idle(p)
    /\ \E id \in RequestIds :
          Accept(p, [NoRequest EXCEPT !.op = "summary", !.id = id])
    /\ UNCHANGED <<pureVars, OPENROUTER_API_KEY, file, nextId, store, notified>>

\* campaigns = load_campaigns(), the lookup and the completion
SummaryComplete(p) ==
    /\ pc[p] = "load_read"
    /\ req[p].op = "summary"
    /\ Parses(file)
    /\ \E net \in HandlerCompletions :
          LET i == Find(JsonLoad(file), req[p].id)
              summary == call_openrouter(OPENROUTER_API_KEY, net)
          IN  IF i = 0
              THEN Respond(p, req[p], 404, "Campaign not found", <<>>, NoPost, Solo)
              ELSE IF ~summary.ok
              THEN Respond(p, req[p], 500, "upstream generation failed", <<>>, NoPost, Solo)
              ELSE Respond(p, req[p], 200, "campaign_summary", <<>>, NoPost, Solo)
    /\ UNCHANGED <<pureVars, OPENROUTER_API_KEY, file, nextId, nRequests, store, notified>>

(***************************************************************************)
(* The service.                                                            *)
(***************************************************************************)
PureIdle ==
    /\ cn_numbers = <<>> /\ cn_cleaned = <<>> /\ cn_done = FALSE
    /\ co_net = NetError /\ co_result = Raised(FALSE) /\ co_done = FALSE

ServiceInit ==
    /\ file = Missing
    /\ store = <<>>
    /\ pc = [p \in Procs |-> "idle"]
    /\ req = [p \in Procs |-> NoRequest]
    /\ campaigns = [p \in Procs |-> <<>>]
    /\ nextId = 1
    /\ nRequests = 0
    /\ wrote = [p \in Procs |-> "none"]
    /\ posted = [p \in Procs |-> NoPost]
    /\ notified = {}
    /\ committed = {}
    /\ before = NoSnapshot
    /\ response = NoResponse

Init ==
    /\ OPENROUTER_API_KEY \in KeyValues
    /\ ServiceInit
    /\ PureIdle

Step(p) ==
    \/ GenerateScript(p)
    \/ GenerateScriptAppend(p)
    \/ ApproveCampaign(p)
    \/ ApproveFind(p)
    \/ ApproveNotify(p)
    \/ CallStatusWebhook(p)
    \/ CallStatusAppend(p)
    \/ GenerateSummary(p)
    \/ SummaryComplete(p)
    \/ LoadOpen(p)
    \/ LoadDump(p)
    \/ LoadReadError(p)
    \/ SaveOpen(p)
    \/ SaveDump(p)

Next == \E p \in Procs : Step(p)

Spec == Init /\ [][Next]_vars

(***************************************************************************)
(* clean_numbers on its own: every list of at most MaxNumbers raw strings. *)
(***************************************************************************)
RawStrings ==
    { <<>>, <<"+">>, <<" ", "-", " ">>, Raw_Abc, Raw_Spaced,
      Digits(10),
      <<"+">> \o Digits(9),
      <<"+">> \o Digits(10),
      <<"+">> \o Digits(15),
      <<"+">> \o Digits(16),
      <<" ", "+">> \o Digits(10) \o <<" ">>,
      <<"+", "-">> \o Digits(5) \o <<"-", " ">> \o Digits(10),
      <<"+">> \o Digits(9) \o <<"-">>,
      <<"+", "+">> \o Digits(10),
      <<"+">> \o Digits(5) \o <<"a">> \o Digits(5),
      <<"+">> \o Digits(10) \o <<"a">>,
      <<"a", "+">> \o Digits(10),
      <<"+">> \o Digits(10) \o <<NL>>,
      <<"+">> \o Digits(10) \o <<NL, NL>>,
      <<NL, "+">> \o Digits(10),
      <<"+">> \o Digits(9) \o <<NL>> }

RawLists == UNION { [1..n -> RawStrings] : n \in 0..MaxNumbers }

CleanInit ==
    /\ OPENROUTER_API_KEY = "None"
    /\ ServiceInit
    /\ cn_numbers \in RawLists
    /\ cn_cleaned = <<>>
    /\ cn_done = FALSE
    /\ co_net = NetError /\ co_result = Raised(FALSE) /\ co_done = FALSE

CleanNumbers ==
    /\ ~cn_done
    /\ cn_cleaned' = clean_numbers(cn_numbers)
    /\ cn_done' = TRUE
    /\ UNCHANGED <<serviceVars, OPENROUTER_API_KEY, cn_numbers, co_net, co_result, co_done>>

CleanSpec == CleanInit /\ [][CleanNumbers]_vars

(***************************************************************************)
(* call_openrouter on its own: every key and every outcome of the POST.    *)
(***************************************************************************)
ClientInit ==
    /\ OPENROUTER_API_KEY \in KeyValues
    /\ ServiceInit
    /\ cn_numbers = <<>> /\ cn_cleaned = <<>> /\ cn_done = FALSE
    /\ co_net \in CompletionOutcomes
    /\ co_result = Raised(FALSE)
    /\ co_done = FALSE

Complete ==
    /\ ~co_done
    /\ co_result' = call_openrouter(OPENROUTER_API_KEY, co_net)
    /\ co_done' = TRUE
    /\ UNCHANGED <<serviceVars, OPENROUTER_API_KEY, cn_numbers, cn_cleaned, cn_done, co_net>>

ClientSpec == ClientInit /\ [][Complete]_vars

(***************************************************************************)
(* Vocabulary of the properties, defined apart from the handlers' code.    *)
(***************************************************************************)
Known(data, id) == \E i \in 1..Len(data) : data[i].campaign_id = id

\* "approved", "draft", or "absent" when no record carries the id
StatusOf(data, id) ==
    IF Known(data, id)
    THEN (CHOOSE c \in {data[i] : i \in 1..Len(data)} : c.campaign_id = id).status
    ELSE "absent"

\* the call_logs of the campaign, empty when no record carries the id
LogsOf(data, id) ==
    IF Known(data, id)
    THEN (CHOOSE c \in {data[i] : i \in 1..Len(data)} : c.campaign_id = id).call_logs
    ELSE <<>>

IsPrefix(s, t) == Len(s) <= Len(t) /\ \A i \in 1..Len(s) : s[i] = t[i]

\* thread p takes a step
Moves(p) == pc'[p] # pc[p]
\* thread p takes the step that sends its response
Returns(p) == pc[p] # "idle" /\ pc'[p] = "idle"

(***************************************************************************)
(* C1.  Campaign status never reverts: once the persisted status of a      *)
(* campaign is approved it is approved in every later persisted state of   *)
(* that campaign; the only change of a persisted status is draft to        *)
(* approved.                                                               *)
(* Refuted: a request that loaded the store before the approval was saved  *)
(* writes its stale copy back over it.                                     *)
(***************************************************************************)
C1_StatusNeverReverts ==
    [][\A id \in RequestIds :
          (Known(store, id) /\ Known(store', id) /\ StatusOf(store', id) # StatusOf(store, id))
          => (StatusOf(store, id) = "draft" /\ StatusOf(store', id) = "approved")]_vars

(***************************************************************************)
(* C2.  call_logs is append-only: in every step the persisted call_logs of *)
(* every campaign before the step is a prefix of its persisted call_logs   *)
(* after the step.                                                         *)
(* Refuted: of two overlapping writers the later save drops the entry the  *)
(* earlier one appended.                                                   *)
(***************************************************************************)
C2_CallLogsAppendOnly ==
    [][\A id \in RequestIds :
          Known(store', id) => IsPrefix(LogsOf(store, id), LogsOf(store', id))]_vars


(***************************************************************************)
(* C3.  clean_numbers returns, in input order and without deduplication,   *)
(* the space/hyphen-stripped forms of exactly those entries whose stripped *)
(* form is a '+' followed by 10 to 15 decimal digits and nothing else.     *)
(* Refuted: `$` also matches before a final newline, so "+1234567890\n"   *)
(* is kept, newline included.                                              *)
(***************************************************************************)
\* s with every space and hyphen left out
WithoutSeparators(s) == SelectSeq(s, LAMBDA c : c \notin {" ", "-"})

\* a '+' followed by 10 to 15 decimal digits and nothing else
IsPlusDigits(s) ==
    /\ Len(s) \in 11..16
    /\ s[1] = "+"
    /\ \A i \in 2..Len(s) : s[i] \in {"0", "1", "2", "3", "4", "5", "6", "7", "8", "9"}

RECURSIVE StrippedValid(_)
StrippedValid(numbers) ==
    IF numbers = <<>> THEN <<>>
    ELSE (IF IsPlusDigits(WithoutSeparators(Head(numbers)))
          THEN <<WithoutSeparators(Head(numbers))>> ELSE <<>>)
         \o StrippedValid(Tail(numbers))

C3_CleanNumbersExact == cn_done => cn_cleaned = StrippedValid(cn_numbers)

(***************************************************************************)
(* C4.  An already-committed approval is a true no-op: every               *)
(* approve-campaign call that starts after an earlier one for the same id  *)
(* has returned success returns success without invoking the automation    *)
(* webhook and without writing the store.                                  *)
(* Refuted: the committed approval can be overwritten by a stale save      *)
(* (C1), after which the late call posts to the webhook again; and a late  *)
(* call that reads the file while another request is rewriting it fails.   *)
(***************************************************************************)
C4_CommittedApprovalIsNoOp ==
    (response.op = "approve" /\ response.late)
    => /\ response.code = 200
       /\ response.posted.kind = "none"
       /\ response.wrote = "none"

(***************************************************************************)
(* C5.  If the webhook call made by approve-campaign answers with a        *)
(* non-2xx status or fails at network level, the request returns 500 and   *)
(* has not saved the store, and after a request that ran alone the         *)
(* persisted status is still draft (after one that overlapped others it   *)
(* is approved only if another call for the id was answered with a 2xx); a *)
(* request goes on to set the status and save only after a 2xx answer.     *)
(***************************************************************************)
C5_FailedNotifyLeavesDraft ==
    /\ (response.op = "approve" /\ response.posted.kind # "none"
        /\ ~Acknowledged(response.posted))
       => /\ response.code = 500
          /\ response.wrote # "save"
          /\ (response.solo => Parses(file) /\ StatusOf(JsonLoad(file), response.id) = "draft")
          /\ (StatusOf(store, response.id) = "approved" => response.id \in notified)
    /\ \A p \in Procs :
          (req[p].op = "approve" /\ pc[p] \in {"save_open", "save_dump"})
          => Acknowledged(posted[p])
    /\ (response.op = "approve" /\ response.wrote = "save") => Acknowledged(response.posted)

C5_Witness ==
    /\ response.op = "approve"
    /\ response.posted.kind = "response"
    /\ ~Acknowledged(response.posted)
    /\ response.solo

(***************************************************************************)
(* C6, as stated.  approve-campaign with an id that matches no campaign    *)
(* fails with 404 and leaves campaigns.json byte-identical, whatever state *)
(* the store was in, the state with no file included.                      *)
(* Refuted: with no file yet, load_campaigns creates one holding "[]".     *)
(***************************************************************************)
C6_UnknownIdLeavesStoreIdentical ==
    [][\A p \in Procs :
          (/\ Returns(p)
           /\ req[p].op = "approve"
           /\ Solo
           /\ before.kind \in {"missing", "json"}
           /\ ~Known(before.data, req[p].id))
          => /\ response'.code = 404
             /\ file' = before]_vars

(***************************************************************************)
(* C6, amended.  approve-campaign with an id that matches no campaign of   *)
(* the store it loads fails with 404 and its own steps never call          *)
(* save_campaigns.  When it runs alone on a file that exists, the file is  *)
(* byte-identical afterwards; when it runs alone and no file exists yet,   *)
(* load_campaigns creates the file holding the empty list.                 *)
(***************************************************************************)
C6_UnknownIdNotFound ==
    [][\A p \in Procs :
          (/\ Moves(p)
           /\ pc[p] = "load_read"
           /\ req[p].op = "approve"
           /\ Parses(file)
           /\ ~Known(JsonLoad(file), req[p].id))
          => /\ Returns(p)
             /\ response'.code = 404
             /\ response'.wrote # "save"
             /\ file' = file
             /\ (Solo /\ before.kind = "json")
                => (file' = before /\ response'.wrote = "none")
             /\ (Solo /\ before.kind = "missing")
                => (file' = JsonDump(<<>>, 0) /\ response'.wrote = "load")]_vars

C6_Witness ==
    /\ response.op = "approve"
    /\ response.code = 404
    /\ response.solo
    /\ response.wrote = "none"
    /\ Len(store) >= 1

(***************************************************************************)
(* C7.  Every campaign record has a non-empty numbers list in every        *)
(* reachable state: generate-script answers 400 and stores nothing when    *)
(* the normalized numbers are empty (it normalizes once both configuration *)
(* files are found), nothing changes numbers afterwards, and the "no       *)
(* numbers" branch of approve-campaign is never taken.                     *)
(***************************************************************************)
AllRecords ==
    {store[i] : i \in 1..Len(store)}
    \cup {file.data[i] : i \in 1..Len(file.data)}
    \cup UNION {{campaigns[p][i] : i \in 1..Len(campaigns[p])} : p \in Procs}

C7_NumbersNeverEmpty ==
    /\ \A c \in AllRecords : c.numbers # <<>>
    /\ ~(response.op = "approve" /\ response.code = 400)
    /\ (/\ response.op = "generate"
        /\ response.detail \notin {"knowledge_base.json missing", "prompt.txt missing"}
        /\ clean_numbers(response.numbers) = <<>>)
       => (response.code = 400 /\ response.wrote = "none")
    /\ \A p \in Procs : req[p].op = "generate" => clean_numbers(req[p].numbers) # <<>>

C7_Witness ==
    /\ response.op = "generate"
    /\ response.code = 400
    /\ response.numbers # <<>>
    /\ Len(store) >= 1
    /\ \E p \in Procs : pc[p] = "notify"


(***************************************************************************)
(* C8, as stated.  call_openrouter fails exactly when the key is missing   *)
(* (and then makes no network call), the response status is not 2xx, the   *)
(* network call fails, or the body lacks the expected shape; for every 2xx *)
(* response with a well-formed body it returns the first choice's content. *)
(* Refuted: a 201 or 204 response with a well-formed body is a failure.    *)
(***************************************************************************)
WellFormed(b) ==
    /\ b.json
    /\ "choices" \in DOMAIN b.value
    /\ b.value.choices # <<>>
    /\ "message" \in DOMAIN Head(b.value.choices)
    /\ "content" \in DOMAIN Head(b.value.choices).message

KeyMissing == OPENROUTER_API_KEY \in {"None", ""}

C8_FailsExactlyOnNon2xx ==
    co_done =>
       /\ ~co_result.ok <=> \/ KeyMissing
                            \/ co_net.kind = "error"
                            \/ co_net.status \notin 200..299
                            \/ ~WellFormed(co_net.body)
       /\ KeyMissing => ~co_result.called
       /\ co_result.ok => co_result.content = Head(co_net.body.value.choices).message.content

(***************************************************************************)
(* C8, amended.  call_openrouter fails exactly when the key is missing     *)
(* (and then makes no network call), the response status is not 200, the   *)
(* network call fails, or the body lacks the expected shape; for every 200 *)
(* response with a well-formed body it returns the first choice's content. *)
(***************************************************************************)
C8_FailsExactlyOnNon200 ==
    co_done =>
       /\ ~co_result.ok <=> \/ KeyMissing
                            \/ co_net.kind = "error"
                            \/ co_net.status # 200
                            \/ ~WellFormed(co_net.body)
       /\ KeyMissing <=> ~co_result.called
       /\ co_result.ok => co_result.content = Head(co_net.body.value.choices).message.content

C8_Witness ==
    /\ co_done
    /\ ~KeyMissing
    /\ co_net.kind = "response"
    /\ co_net.status \in 201..299
    /\ WellFormed(co_net.body)
    /\ ~co_result.ok
    /\ co_result.called

(***************************************************************************)
(* C9.  When call-status-webhook for a known id runs without overlapping   *)
(* another request, it succeeds and the store afterwards differs from the  *)
(* store before only in one new entry at the end of that campaign's        *)
(* call_logs, carrying the supplied phone_number, status and duration and  *)
(* a non-empty timestamp; nothing of the payload is validated.             *)
(***************************************************************************)
OneEntryAppended(old, new, id, data) ==
    /\ Len(new) = Len(old)
    /\ \A i \in 1..Len(old) :
          IF old[i].campaign_id = id
          THEN /\ [new[i] EXCEPT !.call_logs = old[i].call_logs] = old[i]
               /\ Len(new[i].call_logs) = Len(old[i].call_logs) + 1
               /\ IsPrefix(old[i].call_logs, new[i].call_logs)
               /\ LET e == new[i].call_logs[Len(new[i].call_logs)]
                  IN  /\ DOMAIN e = {"phone_number", "status", "duration", "timestamp"}
                      /\ e.phone_number = data.phone_number
                      /\ e.status = data.call_status
                      /\ e.duration = data.duration
                      /\ Len(e.timestamp) > 0
          ELSE new[i] = old[i]

C9_SoloCallStatusAppendsOneEntry ==
    [][\A p \in Procs :
          (/\ Returns(p)
           /\ req[p].op = "call_status"
           /\ Solo
           /\ before.kind = "json"
           /\ Known(before.data, req[p].id))
          => /\ response'.code = 200
             /\ Parses(file')
             /\ OneEntryAppended(before.data, JsonLoad(file'), req[p].id, req[p].report)]_vars

C9_Witness ==
    /\ response.op = "call_status"
    /\ response.code = 200
    /\ response.solo
    /\ Parses(file)
    /\ Len(JsonLoad(file)) = 2
    /\ Len(LogsOf(JsonLoad(file), response.id)) = 2
    /\ LogsOf(JsonLoad(file), response.id)[2].duration < 0

(***************************************************************************)
(* C10.  Approved implies notified: in every reachable state every         *)
(* campaign whose persisted status is approved has had a webhook call      *)
(* carrying its id acknowledged with a 2xx status.                         *)
(***************************************************************************)
C10_ApprovedImpliesNotified ==
    \A c \in {store[i] : i \in 1..Len(store)} \cup {file.data[i] : i \in 1..Len(file.data)} :
       c.status = "approved" => c.campaign_id \in notified

C10_Witness ==
    /\ Parses(file)
    /\ \E i \in 1..Len(file.data) :
          /\ file.data[i].status = "approved"
          /\ file.data[i].call_logs # <<>>

=============================================================================
